---- MODULE Spec2Model ----
(* One call session of the video-call API: the Call document            *)
(* (models/call.model.js), the HTTP handlers that read and save it       *)
(* (controllers/call.controller.js, controllers/admin.controller.js)     *)
(* and the events the handlers emit through socket.io.                   *)
(* Each HTTP handler runs to completion as one action.                   *)
EXTENDS Integers, Sequences, FiniteSets, TLC

\* ------------------------------------------------------------------ bounds
\* Largest value of the clock (in ticks).
MaxTime == 1
\* Milliseconds in one tick of the clock.
TickMs == 500
\* Longest userIds / inviteUserIds list a request carries.
MaxInviteLen == 2
\* Most chat messages a session holds in the model.
MaxChat == 1

\* ------------------------------------------------------------ constants
\* A Date field that is not set.
Undefined == 0 - 1
\* maxParticipants when the request gives none.
DefaultMaxParticipants == 50
\* Bounds of the Call schema's maxParticipants.
MinParticipants == 2
MaxParticipantsLimit == 1000
\* Longest chat message the Call schema accepts.
MaxMessageLength == 1000
\* Milliseconds in a second (durations are stored in seconds).
MsPerSecond == 1000

Users == {"u1", "u2", "u3"}
NoUser == "nobody"
Statuses == {"scheduled", "active", "ended", "cancelled"}
Terminal == {"ended", "cancelled"}
\* Rooms of socket.io: the session's channel and each user's own room.
ChannelRoom == <<"channel", "call">>
UserRoom(u) == <<"user", u>>
\* The room ids that clients name in socket commands: the session's channel
\* and a room that belongs to no session.
RoomIds == {ChannelRoom, <<"channel", "other">>}
\* The connections, and the user each one authenticates as (the first two
\* are two tabs of one user).
Conns == {"s1", "s2", "s3"}
socketUser(s) == IF s \in {"s1", "s2"} THEN "u1" ELSE "u3"
NoConn == "none"
\* The HTTP requests that may be in flight at the same time.
ReqIds == {"r1", "r2"}

\* ------------------------------------------------------------ variables
VARIABLES
  exists,     \* the Call document is in the store
  call,       \* the stored Call document
  now,        \* the clock: what new Date() returns
  emitted,    \* events the last handler emitted, in order
  response,   \* the last handler and its HTTP status (0: a socket handler,
              \* which answers nothing)
  sockets,        \* each connection: not yet opened, live or closed
  socketRooms,    \* the socket.io rooms each connection is in
  connectedUsers, \* the connectedUsers map: user -> socket id
  activeRooms,    \* the activeRooms map, in insertion order
  requests,       \* the HTTP handlers suspended at an await
  log             \* the writes to the store and the events emitted by the
                  \* suspended handlers, in order

callVars == <<exists, call>>
sockVars == <<sockets, socketRooms, connectedUsers, activeRooms>>
asyncVars == <<requests, log>>
vars == <<exists, call, now, emitted, response, sockets, socketRooms,
          connectedUsers, activeRooms, requests, log>>

\* --------------------------------------------------------- the document
NoPermissions == [canInvite |-> FALSE, canMute |-> FALSE,
                  canKick |-> FALSE, canRecord |-> FALSE]
AllPermissions == [canInvite |-> TRUE, canMute |-> TRUE,
                   canKick |-> TRUE, canRecord |-> TRUE]
DefaultMediaState == [audioEnabled |-> TRUE, videoEnabled |-> TRUE,
                      screenSharing |-> FALSE]

\* participantSchema with its defaults.
Participant(userId, role, permissions, t) ==
  [userId |-> userId, joinedAt |-> t, leftAt |-> Undefined,
   duration |-> Undefined, role |-> role, permissions |-> permissions,
   mediaState |-> DefaultMediaState, isActive |-> TRUE]

\* One element of callSchema.invitations (invitedAt is not modelled).
Invitation(userId, invitedBy) ==
  [userId |-> userId, invitedBy |-> invitedBy,
   status |-> "pending", respondedAt |-> Undefined]

\* callSchema with its defaults, before any field is given.
BlankCall ==
  [host |-> NoUser, participants |-> <<>>, maxParticipants |-> DefaultMaxParticipants,
   status |-> "active", scheduledFor |-> "none", startedAt |-> 0,
   endedAt |-> Undefined, duration |-> Undefined,
   settings |-> [allowChat |-> TRUE, requirePassword |-> FALSE,
                 password |-> "none", lockRoom |-> FALSE],
   chatMessages |-> <<>>, invitations |-> <<>>,
   analytics |-> [totalParticipants |-> 0, maxConcurrentParticipants |-> 0,
                  totalMessages |-> 0]]

\* A request slot: where its handler is suspended, the handler, its user,
\* the document the handler holds in memory and the status it answered.
Request(pc, op, userId, doc, code) ==
  [pc |-> pc, op |-> op, userId |-> userId, doc |-> doc, code |-> code]
NoRequest == Request("idle", "none", NoUser, BlankCall, 0)

Max(a, b) == IF a >= b THEN a ELSE b
Min(a, b) == IF a <= b THEN a ELSE b

\* Seconds between two clock values: Math.floor((b - a) / 1000).
Seconds(a, b) == ((b - a) * TickMs) \div MsPerSecond

\* Array.prototype.find as an index: the first index whose element
\* satisfies the test, 0 when there is none.
FirstIndex(seq, Test(_)) ==
  IF \E i \in DOMAIN seq : Test(seq[i])
  THEN CHOOSE i \in DOMAIN seq : Test(seq[i]) /\ \A j \in 1..(i-1) : ~Test(seq[j])
  ELSE 0

\* participants.filter(p => p.isActive && p.userId !== userId), in array order.
RECURSIVE activeOthers(_, _)
activeOthers(seq, userId) ==
  IF seq = <<>> THEN <<>>
  ELSE IF Head(seq).isActive /\ Head(seq).userId # userId
       THEN <<Head(seq)>> \o activeOthers(Tail(seq), userId)
       ELSE activeOthers(Tail(seq), userId)

\* virtual('activeParticipantsCount')
activeParticipantsCount(c) ==
  Cardinality({i \in DOMAIN c.participants : c.participants[i].isActive})

\* pre('save') that stores the current number of active participants as
\* maxConcurrentParticipants.
preSaveCurrentCount(c) ==
  [c EXCEPT
     !.duration = IF c.status = "ended" /\ c.endedAt # Undefined
                  THEN Seconds(c.startedAt, c.endedAt) ELSE @,
     !.analytics = [totalParticipants |-> Len(c.participants),
                    maxConcurrentParticipants |-> activeParticipantsCount(c),
                    totalMessages |-> Len(c.chatMessages)]]

\* pre('save'): duration of an ended call and the derived analytics.
preSave(c) ==
  [c EXCEPT
     !.duration = IF c.status = "ended" /\ c.endedAt # Undefined
                  THEN Seconds(c.startedAt, c.endedAt) ELSE @,
     !.analytics = [totalParticipants |-> Len(c.participants),
                    maxConcurrentParticipants |->
                      Max(c.analytics.maxConcurrentParticipants,
                          activeParticipantsCount(c)),
                    totalMessages |-> Len(c.chatMessages)]]

\* The permissions addParticipant gives a new entry.
derivedPermissions(role, permissions) ==
  [canInvite |-> permissions.canInvite \/ role \in {"host", "moderator"},
   canMute   |-> permissions.canMute \/ role \in {"host", "moderator"},
   canKick   |-> permissions.canKick \/ role = "host",
   canRecord |-> permissions.canRecord \/ role = "host"]

\* addParticipant that appends an entry whether or not the user has one.
addParticipantAlwaysAppends(c, userId, role, permissions, t) ==
  preSave([c EXCEPT !.participants =
     Append(@, Participant(userId, role, derivedPermissions(role, permissions), t))])

\* methods.addParticipant
addParticipant(c, userId, role, permissions, t) ==
  LET i == FirstIndex(c.participants, LAMBDA p : p.userId = userId) IN
  IF i # 0
  THEN IF ~c.participants[i].isActive
       THEN preSave([c EXCEPT !.participants[i].isActive = TRUE,
                              !.participants[i].joinedAt = t,
                              !.participants[i].leftAt = Undefined])
       ELSE preSave(c)
  ELSE preSave([c EXCEPT !.participants =
         Append(@, Participant(userId, role, derivedPermissions(role, permissions), t))])

\* removeParticipant that marks every active entry as left.
removeParticipantEveryEntry(c, userId, t) ==
  preSave([c EXCEPT !.participants =
     [i \in DOMAIN c.participants |->
        IF c.participants[i].isActive
        THEN [c.participants[i] EXCEPT
                !.isActive = FALSE, !.leftAt = t,
                !.duration = IF c.participants[i].joinedAt # Undefined
                             THEN Seconds(c.participants[i].joinedAt, t) ELSE @]
        ELSE c.participants[i]]])

\* methods.removeParticipant
removeParticipant(c, userId, t) ==
  LET i == FirstIndex(c.participants, LAMBDA p : p.userId = userId) IN
  IF i # 0 /\ c.participants[i].isActive
  THEN preSave([c EXCEPT !.participants[i].isActive = FALSE,
                         !.participants[i].leftAt = t,
                         !.participants[i].duration =
                            IF c.participants[i].joinedAt # Undefined
                            THEN Seconds(c.participants[i].joinedAt, t) ELSE @])
  ELSE preSave(c)

\* endCall without the assignment of endedAt.
endCallNoEndedAt(c, t) ==
  preSave([c EXCEPT
    !.status = "ended",
    !.participants = [i \in DOMAIN c.participants |->
       IF c.participants[i].isActive
       THEN [c.participants[i] EXCEPT
               !.isActive = FALSE, !.leftAt = t,
               !.duration = IF c.participants[i].joinedAt # Undefined
                            THEN Seconds(c.participants[i].joinedAt, t) ELSE @]
       ELSE c.participants[i]]])

\* endCall that marks a call it is asked to end again as cancelled.
endCallCancelsEnded(c, t) ==
  preSave([c EXCEPT
    !.status = IF c.status = "ended" THEN "cancelled" ELSE "ended",
    !.endedAt = t,
    !.participants = [i \in DOMAIN c.participants |->
       IF c.participants[i].isActive
       THEN [c.participants[i] EXCEPT
               !.isActive = FALSE, !.leftAt = t,
               !.duration = IF c.participants[i].joinedAt # Undefined
                            THEN Seconds(c.participants[i].joinedAt, t) ELSE @]
       ELSE c.participants[i]]])

\* methods.endCall
endCall(c, t) ==
  preSave([c EXCEPT
    !.status = "ended",
    !.endedAt = t,
    !.participants = [i \in DOMAIN c.participants |->
       IF c.participants[i].isActive
       THEN [c.participants[i] EXCEPT
               !.isActive = FALSE, !.leftAt = t,
               !.duration = IF c.participants[i].joinedAt # Undefined
                            THEN Seconds(c.participants[i].joinedAt, t) ELSE @]
       ELSE c.participants[i]]])

\* canUserJoin comparing with > where the code has >=.
canUserJoinOffByOne(c, userId) ==
  IF c.status # "active" /\ c.status # "scheduled"
  THEN [canJoin |-> FALSE, reason |-> "Call is not active"]
  ELSE IF activeParticipantsCount(c) > c.maxParticipants
  THEN [canJoin |-> FALSE, reason |-> "Call is full"]
  ELSE IF c.settings.lockRoom
          /\ ~(\E i \in DOMAIN c.participants : c.participants[i].userId = userId)
          /\ ~(\E i \in DOMAIN c.invitations :
                  c.invitations[i].userId = userId /\ c.invitations[i].status = "accepted")
  THEN [canJoin |-> FALSE, reason |-> "Room is locked"]
  ELSE [canJoin |-> TRUE, reason |-> "none"]

\* canUserJoin without the test for a full call.
canUserJoinNeverFull(c, userId) ==
  IF c.status # "active" /\ c.status # "scheduled"
  THEN [canJoin |-> FALSE, reason |-> "Call is not active"]
  ELSE IF c.settings.lockRoom
          /\ ~(\E i \in DOMAIN c.participants : c.participants[i].userId = userId)
          /\ ~(\E i \in DOMAIN c.invitations :
                  c.invitations[i].userId = userId /\ c.invitations[i].status = "accepted")
  THEN [canJoin |-> FALSE, reason |-> "Room is locked"]
  ELSE [canJoin |-> TRUE, reason |-> "none"]

\* methods.canUserJoin
canUserJoin(c, userId) ==
  IF c.status # "active" /\ c.status # "scheduled"
  THEN [canJoin |-> FALSE, reason |-> "Call is not active"]
  ELSE IF activeParticipantsCount(c) >= c.maxParticipants
  THEN [canJoin |-> FALSE, reason |-> "Call is full"]
  ELSE IF c.settings.lockRoom
          /\ ~(\E i \in DOMAIN c.participants : c.participants[i].userId = userId)
          /\ ~(\E i \in DOMAIN c.invitations :
                  c.invitations[i].userId = userId /\ c.invitations[i].status = "accepted")
  THEN [canJoin |-> FALSE, reason |-> "Room is locked"]
  ELSE [canJoin |-> TRUE, reason |-> "none"]

\* ------------------------------------------------------------ responses
\* The HTTP response of a handler: its status code and, for inviteToCall,
\* the invitationsSent it reports.
RespondCount(op, user, code, count) ==
  [op |-> op, code |-> code, invitationsSent |-> count]
Respond(op, user, code) == RespondCount(op, user, code, 0)
Event(name, room) == [event |-> name, room |-> room]

Init ==
  /\ exists = FALSE
  /\ call = BlankCall
  /\ now = 0
  /\ emitted = <<>>
  /\ response = Respond("none", NoUser, 0)
  /\ sockets = [s \in Conns |-> "new"]
  /\ socketRooms = [s \in Conns |-> {}]
  /\ connectedUsers = [u \in Users |-> NoConn]
  /\ activeRooms = <<>>
  /\ requests = [r \in ReqIds |-> NoRequest]
  /\ log = <<>>

\* ------------------------------------------------------- request inputs
\* All lists over a set of length lo..hi.
Lists(S, lo, hi) == UNION {[1..n -> S] : n \in lo..hi}
\* The users that requests name in userIds and inviteUserIds.
InviteTargets == {"u2"}

\* The users that send createCall.
CreatorInputs == {"u1"}
\* Bodies of createCall requests (maxParticipants Undefined: not given;
\* settings as createCall normalises them), with the creator's
\* user.subscription.features.maxParticipants and canMakeCall().
OpenSettings ==
  [allowChat |-> TRUE, requirePassword |-> FALSE, password |-> "none", lockRoom |-> FALSE]
ProtectedSettings ==
  [allowChat |-> TRUE, requirePassword |-> TRUE, password |-> "pw1", lockRoom |-> FALSE]
LockedSettings ==
  [allowChat |-> FALSE, requirePassword |-> TRUE, password |-> "pw1", lockRoom |-> TRUE]
CreateBody(maxParticipants, featureMax, canMakeCall, scheduledFor, settings) ==
  [maxParticipants |-> maxParticipants, featureMax |-> featureMax,
   canMakeCall |-> canMakeCall, scheduledFor |-> scheduledFor, settings |-> settings]
CreateInputs ==
  { CreateBody(Undefined, 3, TRUE, "none", OpenSettings),
    CreateBody(2, 3, TRUE, "none", OpenSettings),
    CreateBody(Undefined, 3, TRUE, "future", LockedSettings),
    CreateBody(1, 3, TRUE, "none", OpenSettings),
    CreateBody(1001, 3, TRUE, "none", OpenSettings),
    CreateBody(2, 1, TRUE, "none", OpenSettings),
    CreateBody(2, 3, FALSE, "none", OpenSettings) }
\* scheduledFor of a createCall body: absent, a date before the request
\* and a date after it.
ScheduledForInputs == {"none", "past", "future"}
\* password of a joinCall body.
PasswordInputs == {"none", "pw1"}

\* The maxParticipants rule without its upper limit.
createCallValidationNoMax(maxParticipants) ==
  maxParticipants = Undefined \/ maxParticipants >= MinParticipants

\* createCallValidation: the maxParticipants rule.
createCallValidation(maxParticipants) ==
  maxParticipants = Undefined
    \/ (maxParticipants >= MinParticipants /\ maxParticipants <= MaxParticipantsLimit)

\* The Call schema's validators, run by save().
schemaValid(c) ==
  /\ c.maxParticipants >= MinParticipants
  /\ c.maxParticipants <= MaxParticipantsLimit
  /\ \A i \in DOMAIN c.chatMessages :
        c.chatMessages[i].message >= 1 /\ c.chatMessages[i].message <= MaxMessageLength

\* call-invitation to each listed user's personal room, in list order.
invitationEvents(ids) == [i \in DOMAIN ids |-> Event("call-invitation", UserRoom(ids[i]))]

\* ------------------------------------------------------------- handlers
\* callController.createCall
CreateCall(userId, maxParticipants, featureMax, canMakeCall, scheduledFor, settings, inviteUserIds) ==
  /\ ~exists
  /\ UNCHANGED now
  /\ IF ~createCallValidation(maxParticipants)
     THEN /\ response' = Respond("createCall", userId, 400)
          /\ emitted' = <<>>
          /\ UNCHANGED callVars
     ELSE IF ~canMakeCall
     THEN /\ response' = Respond("createCall", userId, 403)
          /\ emitted' = <<>>
          /\ UNCHANGED callVars
     ELSE
       LET given == IF maxParticipants = Undefined THEN DefaultMaxParticipants
                    ELSE maxParticipants
           doc  == [BlankCall EXCEPT
                      !.host = userId,
                      !.maxParticipants = Min(given, featureMax),
                      !.scheduledFor = scheduledFor,
                      !.status = IF scheduledFor # "none" THEN "scheduled" ELSE "active",
                      !.startedAt = now,
                      !.settings = settings]
           c1   == addParticipant(doc, userId, "host", AllPermissions, now)
           c2   == preSave([c1 EXCEPT !.invitations =
                      @ \o [i \in DOMAIN inviteUserIds |->
                              Invitation(inviteUserIds[i], userId)]])
       IN IF ~schemaValid(doc)
          THEN /\ response' = Respond("createCall", userId, 500)
               /\ emitted' = <<>>
               /\ UNCHANGED callVars
          ELSE /\ exists' = TRUE
               /\ call' = c2
               /\ emitted' = invitationEvents(inviteUserIds)
               /\ response' = Respond("createCall", userId, 201)

\* joinCall without the comparison of the password.
JoinCallNoPassword(userId, password, isBlocked) ==
  /\ UNCHANGED now
  /\ IF ~exists
     THEN /\ response' = Respond("joinCall", userId, 404)
          /\ emitted' = <<>>
          /\ UNCHANGED callVars
     ELSE IF ~canUserJoin(call, userId).canJoin \/ isBlocked
     THEN /\ response' = Respond("joinCall", userId, 403)
          /\ emitted' = <<>>
          /\ UNCHANGED callVars
     ELSE /\ call' = addParticipant(call, userId, "participant", NoPermissions, now)
          /\ emitted' = <<Event("user-joined-call", ChannelRoom)>>
          /\ response' = Respond("joinCall", userId, 200)
          /\ UNCHANGED exists

\* callController.joinCall
JoinCall(userId, password, isBlocked) ==
  /\ UNCHANGED now
  /\ IF ~exists
     THEN /\ response' = Respond("joinCall", userId, 404)
          /\ emitted' = <<>>
          /\ UNCHANGED callVars
     ELSE IF ~canUserJoin(call, userId).canJoin
             \/ (call.settings.requirePassword /\ call.settings.password # password)
             \/ isBlocked
     THEN /\ response' = Respond("joinCall", userId, 403)
          /\ emitted' = <<>>
          /\ UNCHANGED callVars
     ELSE /\ call' = addParticipant(call, userId, "participant", NoPermissions, now)
          /\ emitted' = <<Event("user-joined-call", ChannelRoom)>>
          /\ response' = Respond("joinCall", userId, 200)
          /\ UNCHANGED exists

\* The host transfer of leaveCall: the first active participant other
\* than the leaving user becomes host with all permissions.
transferHost(c, userId) ==
  LET others == activeOthers(c.participants, userId)
      newHost == others[1].userId
      i == FirstIndex(c.participants, LAMBDA p : p.isActive /\ p.userId # userId)
  IN preSave([c EXCEPT !.host = newHost,
                       !.participants[i].role = "host",
                       !.participants[i].permissions = AllPermissions])

\* Whether leaveCall transfers the host role, on the document as
\* removeParticipant left it.
transfersHost(c, userId) ==
  /\ c.host = userId
  /\ activeParticipantsCount(c) > 0
  /\ Len(activeOthers(c.participants, userId)) > 0

\* callController.leaveCall
LeaveCall(userId) ==
  IF ~exists
  THEN /\ response' = Respond("leaveCall", userId, 404)
       /\ emitted' = <<>>
       /\ UNCHANGED <<callVars, now>>
  ELSE
    LET c1 == removeParticipant(call, userId, now)
        c2 == IF transfersHost(c1, userId) THEN transferHost(c1, userId) ELSE c1
        ev1 == <<Event("user-left-call", ChannelRoom)>>
        ev2 == IF transfersHost(c1, userId)
               THEN <<Event("host-changed", ChannelRoom)>> ELSE <<>>
    IN IF activeParticipantsCount(c2) = 0
       THEN \E t \in now..Min(now + 1, MaxTime) :
              /\ call' = endCall(c2, t)
              /\ now' = t
              /\ emitted' = ev1 \o ev2 \o <<Event("call-ended", ChannelRoom)>>
              /\ response' = Respond("leaveCall", userId, 200)
              /\ UNCHANGED exists
       ELSE /\ call' = c2
            /\ emitted' = ev1 \o ev2
            /\ response' = Respond("leaveCall", userId, 200)
            /\ UNCHANGED <<exists, now>>

\* The permission test of endCall that lets every user with a participant
\* entry end the call.
mayEndCallAnyParticipant(c, userId) ==
  LET i == FirstIndex(c.participants, LAMBDA p : p.userId = userId) IN
  ~(c.host # userId /\ i = 0)

\* Whether callController.endCall lets the user end the call.
mayEndCall(c, userId) ==
  LET i == FirstIndex(c.participants, LAMBDA p : p.userId = userId) IN
  ~(c.host # userId /\ (i = 0 \/ c.participants[i].role # "moderator"))

\* callController.endCall
EndCall(userId) ==
  /\ UNCHANGED now
  /\ IF ~exists
     THEN /\ response' = Respond("endCall", userId, 404)
          /\ emitted' = <<>>
          /\ UNCHANGED callVars
     ELSE IF ~mayEndCall(call, userId)
     THEN /\ response' = Respond("endCall", userId, 403)
          /\ emitted' = <<>>
          /\ UNCHANGED callVars
     ELSE /\ call' = endCall(call, now)
          /\ emitted' = <<Event("call-ended", ChannelRoom)>>
          /\ response' = Respond("endCall", userId, 200)
          /\ UNCHANGED exists

\* adminController.endCall
AdminEndCall ==
  /\ UNCHANGED now
  /\ IF ~exists
     THEN /\ response' = Respond("adminEndCall", NoUser, 404)
          /\ emitted' = <<>>
          /\ UNCHANGED callVars
     ELSE IF call.status = "ended"
     THEN /\ response' = Respond("adminEndCall", NoUser, 400)
          /\ emitted' = <<>>
          /\ UNCHANGED callVars
     ELSE /\ call' = endCall(call, now)
          /\ emitted' = <<Event("call-ended", ChannelRoom)>>
          /\ response' = Respond("adminEndCall", NoUser, 200)
          /\ UNCHANGED exists

\* adminController.kickUserFromCall
KickUserFromCall(userId) ==
  /\ UNCHANGED now
  /\ IF ~exists
     THEN /\ response' = Respond("kickUserFromCall", userId, 404)
          /\ emitted' = <<>>
          /\ UNCHANGED callVars
     ELSE /\ call' = removeParticipant(call, userId, now)
          /\ emitted' = <<Event("kicked-from-call", UserRoom(userId))>>
          /\ response' = Respond("kickUserFromCall", userId, 200)
          /\ UNCHANGED exists

\* The targets inviteToCall invites: those of userIds, in order, with no
\* invitation and no participant entry in the document as it was read.
RECURSIVE newInvitationTargets(_, _)
newInvitationTargets(c, userIds) ==
  IF userIds = <<>> THEN <<>>
  ELSE LET inviteUserId == Head(userIds)
           alreadyInvited ==
             \E i \in DOMAIN c.invitations : c.invitations[i].userId = inviteUserId
           alreadyParticipating ==
             \E i \in DOMAIN c.participants : c.participants[i].userId = inviteUserId
       IN (IF ~alreadyInvited /\ ~alreadyParticipating
           THEN <<inviteUserId>> ELSE <<>>)
          \o newInvitationTargets(c, Tail(userIds))

\* The permission test of inviteToCall without the look at canInvite.
mayInviteAnyActive(c, userId) ==
  LET i == FirstIndex(c.participants, LAMBDA p : p.userId = userId /\ p.isActive) IN
  i # 0

\* Whether inviteToCall lets the user invite.
mayInvite(c, userId) ==
  LET i == FirstIndex(c.participants, LAMBDA p : p.userId = userId /\ p.isActive) IN
  i # 0 /\ c.participants[i].permissions.canInvite

\* callController.inviteToCall
InviteToCall(userId, userIds) ==
  /\ UNCHANGED now
  /\ IF Len(userIds) = 0
     THEN /\ response' = Respond("inviteToCall", userId, 400)
          /\ emitted' = <<>>
          /\ UNCHANGED callVars
     ELSE IF ~exists
     THEN /\ response' = Respond("inviteToCall", userId, 404)
          /\ emitted' = <<>>
          /\ UNCHANGED callVars
     ELSE IF ~mayInvite(call, userId)
     THEN /\ response' = Respond("inviteToCall", userId, 403)
          /\ emitted' = <<>>
          /\ UNCHANGED callVars
     ELSE LET targets == newInvitationTargets(call, userIds) IN
          /\ call' = IF Len(targets) > 0
                     THEN preSave([call EXCEPT !.invitations =
                            @ \o [i \in DOMAIN targets |->
                                    Invitation(targets[i], userId)]])
                     ELSE call
          /\ emitted' = invitationEvents(targets)
          /\ response' = RespondCount("inviteToCall", userId, 200, Len(targets))
          /\ UNCHANGED exists

\* response of a respondToInvitation body.
ResponseInputs == {"accepted", "declined", "maybe"}

\* respondToInvitation that takes the user's first invitation whatever its
\* status.
RespondToInvitationAnyStatus(userId, resp) ==
  /\ UNCHANGED now
  /\ IF resp \notin {"accepted", "declined"}
     THEN /\ response' = Respond("respondToInvitation", userId, 400)
          /\ emitted' = <<>>
          /\ UNCHANGED callVars
     ELSE IF ~exists
     THEN /\ response' = Respond("respondToInvitation", userId, 404)
          /\ emitted' = <<>>
          /\ UNCHANGED callVars
     ELSE LET i == FirstIndex(call.invitations, LAMBDA inv : inv.userId = userId) IN
          IF i = 0
          THEN /\ response' = Respond("respondToInvitation", userId, 404)
               /\ emitted' = <<>>
               /\ UNCHANGED callVars
          ELSE /\ call' = preSave([call EXCEPT !.invitations[i].status = resp,
                                               !.invitations[i].respondedAt = now])
               /\ emitted' = <<Event("invitation-response",
                                      UserRoom(call.invitations[i].invitedBy))>>
               /\ response' = Respond("respondToInvitation", userId, 200)
               /\ UNCHANGED exists

\* callController.respondToInvitation
RespondToInvitation(userId, resp) ==
  /\ UNCHANGED now
  /\ IF resp \notin {"accepted", "declined"}
     THEN /\ response' = Respond("respondToInvitation", userId, 400)
          /\ emitted' = <<>>
          /\ UNCHANGED callVars
     ELSE IF ~exists
     THEN /\ response' = Respond("respondToInvitation", userId, 404)
          /\ emitted' = <<>>
          /\ UNCHANGED callVars
     ELSE LET i == FirstIndex(call.invitations,
                     LAMBDA inv : inv.userId = userId /\ inv.status = "pending") IN
          IF i = 0
          THEN /\ response' = Respond("respondToInvitation", userId, 404)
               /\ emitted' = <<>>
               /\ UNCHANGED callVars
          ELSE /\ call' = preSave([call EXCEPT !.invitations[i].status = resp,
                                               !.invitations[i].respondedAt = now])
               /\ emitted' = <<Event("invitation-response",
                                      UserRoom(call.invitations[i].invitedBy))>>
               /\ response' = Respond("respondToInvitation", userId, 200)
               /\ UNCHANGED exists

\* One field of an updateMediaState body: a boolean, something that is
\* not a boolean, or not given.
MediaFields == {"audioEnabled", "videoEnabled", "screenSharing"}
\* Bodies of updateMediaState requests.
MediaInputs ==
  { [audioEnabled |-> "false",  videoEnabled |-> "yes",    screenSharing |-> "absent"],
    [audioEnabled |-> "absent", videoEnabled |-> "absent", screenSharing |-> "absent"] }

\* Object.assign(participant.mediaState, mediaState), mediaState holding
\* the fields of the body that are booleans.
mergeMedia(state, body) ==
  [f \in MediaFields |->
     IF body[f] \in {"true", "false"} THEN body[f] = "true" ELSE state[f]]

\* updateParticipantMedia that takes the user's entry whether or not it is
\* active.
updateParticipantMediaAnyEntry(c, userId, body) ==
  LET i == FirstIndex(c.participants, LAMBDA p : p.userId = userId) IN
  IF i # 0
  THEN preSave([c EXCEPT !.participants[i].mediaState = mergeMedia(@, body)])
  ELSE c

\* methods.updateParticipantMedia
updateParticipantMedia(c, userId, body) ==
  LET i == FirstIndex(c.participants, LAMBDA p : p.userId = userId /\ p.isActive) IN
  IF i # 0
  THEN preSave([c EXCEPT !.participants[i].mediaState = mergeMedia(@, body)])
  ELSE c

\* callController.updateMediaState
UpdateMediaState(userId, body) ==
  /\ UNCHANGED now
  /\ IF ~exists
     THEN /\ response' = Respond("updateMediaState", userId, 404)
          /\ emitted' = <<>>
          /\ UNCHANGED callVars
     ELSE /\ call' = updateParticipantMedia(call, userId, body)
          /\ emitted' = <<Event("participant-media-updated", ChannelRoom)>>
          /\ response' = Respond("updateMediaState", userId, 200)
          /\ UNCHANGED exists

\* A chat text: its length without the surrounding white space, and the
\* white space around it.
MessageInputs ==
  { [chars |-> 0, spaces |-> 0], [chars |-> 0, spaces |-> 2],
    [chars |-> MaxMessageLength, spaces |-> 1],
    [chars |-> MaxMessageLength + 1, spaces |-> 0] }
\* String.prototype.trim, and the length of a text.
trim(m) == [m EXCEPT !.spaces = 0]
length(m) == m.chars + m.spaces

\* methods.addChatMessage (a message is kept as its length; its timestamp
\* is not modelled)
addChatMessage(c, senderId, message, messageType) ==
  preSave([c EXCEPT !.chatMessages =
     Append(@, [senderId |-> senderId, message |-> message,
                messageType |-> messageType])])

\* The permission test of sendChatMessage without the look at allowChat.
mayChatIgnoringAllowChat(c, userId) ==
  FirstIndex(c.participants, LAMBDA p : p.userId = userId /\ p.isActive) # 0

\* Whether sendChatMessage lets the user write to the chat.
mayChat(c, userId) ==
  /\ FirstIndex(c.participants, LAMBDA p : p.userId = userId /\ p.isActive) # 0
  /\ c.settings.allowChat

\* callController.sendChatMessage
SendChatMessage(userId, message) ==
  /\ UNCHANGED now
  /\ IF length(message) = 0 \/ length(trim(message)) = 0
     THEN /\ response' = Respond("sendChatMessage", userId, 400)
          /\ emitted' = <<>>
          /\ UNCHANGED callVars
     ELSE IF ~exists
     THEN /\ response' = Respond("sendChatMessage", userId, 404)
          /\ emitted' = <<>>
          /\ UNCHANGED callVars
     ELSE IF ~mayChat(call, userId)
     THEN /\ response' = Respond("sendChatMessage", userId, 403)
          /\ emitted' = <<>>
          /\ UNCHANGED callVars
     ELSE LET c1 == addChatMessage(call, userId, length(trim(message)), "text") IN
          IF ~schemaValid(c1)
          THEN /\ response' = Respond("sendChatMessage", userId, 500)
               /\ emitted' = <<>>
               /\ UNCHANGED callVars
          ELSE /\ Len(call.chatMessages) < MaxChat
               /\ call' = c1
               /\ emitted' = <<Event("new-chat-message", ChannelRoom)>>
               /\ response' = Respond("sendChatMessage", userId, 200)
               /\ UNCHANGED exists

\* ------------------------------------------------------ socket handlers
\* An event a socket handler emits: its name, the room it is sent to, the
\* user it is about and the connections that receive it.
SockEvent(name, room, userId, to) ==
  [event |-> name, room |-> room, userId |-> userId, to |-> to]
\* The targets of socket.broadcast and of socket.emit.
BroadcastRoom == <<"broadcast", "all">>
OwnSocket(s) == <<"socket", s>>

\* socket.to(room): the connections in the room other than the sender.
socketTo(s, room) == {t \in Conns \ {s} : room \in socketRooms[t]}
\* io.to(room) that reaches, of the connections in the room, only the one
\* connectedUsers holds for its user.
ioToRegistered(room) ==
  {t \in Conns : room \in socketRooms[t] /\ connectedUsers[socketUser(t)] = t}
\* io.to(room): every connection in the room.
ioTo(room) == {t \in Conns : room \in socketRooms[t]}
\* socket.broadcast: every live connection other than the sender.
socketBroadcast(s) == {t \in Conns \ {s} : sockets[t] = "live"}

\* The position of a room in the activeRooms map, 0 when it has none.
roomIndex(rooms, roomId) ==
  IF \E i \in DOMAIN rooms : rooms[i].roomId = roomId
  THEN CHOOSE i \in DOMAIN rooms : rooms[i].roomId = roomId
  ELSE 0
\* activeRooms.get(roomId), the empty set when the map has no such room.
roomMembers(rooms, roomId) ==
  IF roomIndex(rooms, roomId) = 0 THEN {}
  ELSE rooms[roomIndex(rooms, roomId)].participants
\* The map without the entry at position i.
withoutRoom(rooms, i) ==
  SubSeq(rooms, 1, i - 1) \o SubSeq(rooms, i + 1, Len(rooms))
\* activeRooms.get(roomId).delete(userId) that keeps a room left empty.
roomDeleteKeepsEmpty(rooms, roomId, userId) ==
  LET i == roomIndex(rooms, roomId) IN
  IF i = 0 THEN rooms
  ELSE [rooms EXCEPT ![i].participants = @ \ {userId}]
\* activeRooms.get(roomId).delete(userId), and the room's removal when that
\* leaves it empty.
roomDelete(rooms, roomId, userId) ==
  LET i == roomIndex(rooms, roomId) IN
  IF i = 0 THEN rooms
  ELSE IF rooms[i].participants \ {userId} = {} THEN withoutRoom(rooms, i)
  ELSE [rooms EXCEPT ![i].participants = @ \ {userId}]
\* The room's creation when the map lacks it, and
\* activeRooms.get(roomId).add(userId).
roomAdd(rooms, roomId, userId) ==
  LET i == roomIndex(rooms, roomId) IN
  IF i = 0 THEN Append(rooms, [roomId |-> roomId, participants |-> {userId}])
  ELSE [rooms EXCEPT ![i].participants = @ \cup {userId}]

\* io.on('connection')
Connection(s) ==
  /\ sockets[s] = "new"
  /\ sockets' = [sockets EXCEPT ![s] = "live"]
  /\ connectedUsers' = [connectedUsers EXCEPT ![socketUser(s)] = s]
  /\ socketRooms' = [socketRooms EXCEPT ![s] = {UserRoom(socketUser(s))}]
  /\ emitted' = <<SockEvent("user-online", BroadcastRoom, socketUser(s),
                            socketBroadcast(s))>>
  /\ response' = Respond("connection", socketUser(s), 0)
  /\ UNCHANGED <<callVars, now, activeRooms, asyncVars>>

\* socket.on('join-room')
JoinRoom(s, roomId) ==
  /\ sockets[s] = "live"
  /\ socketRooms' = [socketRooms EXCEPT ![s] = @ \cup {roomId}]
  /\ activeRooms' = roomAdd(activeRooms, roomId, socketUser(s))
  /\ emitted' = <<SockEvent("user-joined", roomId, socketUser(s), socketTo(s, roomId)),
                  SockEvent("room-participants", OwnSocket(s), socketUser(s), {s})>>
  /\ response' = Respond("join-room", socketUser(s), 0)
  /\ UNCHANGED <<callVars, now, sockets, connectedUsers, asyncVars>>

\* socket.on('leave-room')
LeaveRoom(s, roomId) ==
  /\ sockets[s] = "live"
  /\ socketRooms' = [socketRooms EXCEPT ![s] = @ \ {roomId}]
  /\ activeRooms' = roomDelete(activeRooms, roomId, socketUser(s))
  /\ emitted' = <<SockEvent("user-left", roomId, socketUser(s), socketTo(s, roomId))>>
  /\ response' = Respond("leave-room", socketUser(s), 0)
  /\ UNCHANGED <<callVars, now, sockets, connectedUsers, asyncVars>>

\* A handler that only passes an event on to a user's own room.
relayToUser(s, op, name, targetUserId) ==
  /\ sockets[s] = "live"
  /\ emitted' = <<SockEvent(name, UserRoom(targetUserId), socketUser(s),
                            ioTo(UserRoom(targetUserId)))>>
  /\ response' = Respond(op, socketUser(s), 0)
  /\ UNCHANGED <<callVars, now, sockVars, asyncVars>>
\* socket.on('send-call-invitation')
SendCallInvitation(s, targetUserId) ==
  relayToUser(s, "send-call-invitation", "call-invitation", targetUserId)
\* socket.on('call-response')
CallResponse(s, targetUserId) ==
  relayToUser(s, "call-response", "call-response", targetUserId)
\* socket.on('webrtc-signal')
WebrtcSignal(s, targetUserId) ==
  relayToUser(s, "webrtc-signal", "webrtc-signal", targetUserId)

\* A handler that only passes an event on to the others in a room.
relayToRoom(s, op, name, roomId) ==
  /\ sockets[s] = "live"
  /\ emitted' = <<SockEvent(name, roomId, socketUser(s), socketTo(s, roomId))>>
  /\ response' = Respond(op, socketUser(s), 0)
  /\ UNCHANGED <<callVars, now, sockVars, asyncVars>>
\* socket.on('toggle-audio')
ToggleAudio(s, roomId) == relayToRoom(s, "toggle-audio", "user-audio-toggled", roomId)
\* socket.on('toggle-video')
ToggleVideo(s, roomId) == relayToRoom(s, "toggle-video", "user-video-toggled", roomId)
\* socket.on('toggle-screen-share')
ToggleScreenShare(s, roomId) ==
  relayToRoom(s, "toggle-screen-share", "user-screen-share-toggled", roomId)
\* socket.on('send-message')
SendMessage(s, roomId) == relayToRoom(s, "send-message", "new-message", roomId)

\* The user-left events of the disconnect handler: one for each room of the
\* map that holds the user, in the map's order.
RECURSIVE disconnectEvents(_, _)
disconnectEvents(s, rooms) ==
  IF rooms = <<>> THEN <<>>
  ELSE (IF socketUser(s) \in Head(rooms).participants
        THEN <<SockEvent("user-left", Head(rooms).roomId, socketUser(s),
                         {t \in Conns \ {s} : Head(rooms).roomId \in socketRooms[t]})>>
        ELSE <<>>)
       \o disconnectEvents(s, Tail(rooms))
\* The activeRooms map after the disconnect handler took the user out of
\* every room and removed the rooms left empty.
RECURSIVE disconnectRooms(_, _)
disconnectRooms(userId, rooms) ==
  IF rooms = <<>> THEN <<>>
  ELSE (IF Head(rooms).participants \ {userId} = {} THEN <<>>
        ELSE <<[Head(rooms) EXCEPT !.participants = @ \ {userId}]>>)
       \o disconnectRooms(userId, Tail(rooms))
\* The body of socket.on('disconnect'), run for a connection that socket.io
\* has already taken out of its rooms.
disconnectHandler(s) ==
  /\ socketRooms' = [socketRooms EXCEPT ![s] = {}]
  /\ activeRooms' = disconnectRooms(socketUser(s), activeRooms)
  /\ connectedUsers' = [connectedUsers EXCEPT ![socketUser(s)] = NoConn]
  /\ emitted' = disconnectEvents(s, activeRooms)
                  \o <<SockEvent("user-offline", BroadcastRoom, socketUser(s),
                                 socketBroadcast(s))>>
  /\ response' = Respond("disconnect", socketUser(s), 0)
  /\ UNCHANGED <<callVars, now, asyncVars>>

\* socket.on('disconnect')
Disconnect(s) ==
  /\ sockets[s] = "live"
  /\ sockets' = [sockets EXCEPT ![s] = "closed"]
  /\ disconnectHandler(s)
\* The disconnect handler run once more for a connection it has already
\* been run for.
DisconnectAgain(s) ==
  /\ sockets[s] = "closed"
  /\ UNCHANGED sockets
  /\ disconnectHandler(s)

\* ------------------------------------------ handlers suspended at awaits
\* What save() writes for one participant entry: the fields the handler
\* changed since it loaded or last saved the document.
mergeEntry(stored, base, mem) ==
  [f \in DOMAIN stored |-> IF mem[f] # base[f] THEN mem[f] ELSE stored[f]]
\* The stored document after save(): the paths the handler modified in
\* memory are written, pushed participants are appended, and every other
\* path keeps what the store holds.
applyDelta(stored, base, mem) ==
  LET n == Len(base.participants) IN
  [f \in DOMAIN stored |->
     IF f = "participants"
     THEN [i \in DOMAIN stored.participants |->
             IF i <= n
             THEN mergeEntry(stored.participants[i], base.participants[i],
                             mem.participants[i])
             ELSE stored.participants[i]]
          \o SubSeq(mem.participants, n + 1, Len(mem.participants))
     ELSE IF f = "analytics"
     THEN mergeEntry(stored.analytics, base.analytics, mem.analytics)
     ELSE IF mem[f] # base[f] THEN mem[f] ELSE stored[f]]

\* Entries of the log: a write to the store with what it did to the user's
\* participant entry, and an event emitted with io.to(call.channelName),
\* with the connections that are in that room when it is emitted.
WriteEntry(r, userId, effect) ==
  [kind |-> "write", req |-> r, userId |-> userId, name |-> effect, to |-> {}]
EmitEntry(r, userId, name) ==
  [kind |-> "emit", req |-> r, userId |-> userId, name |-> name,
   to |-> ioTo(ChannelRoom)]
\* The handler answers and its slot is finished.
finish(r, code) == [requests EXCEPT ![r].pc = "done", ![r].code = code]

asyncFrame == UNCHANGED <<now, emitted, response, sockVars>>

\* joinCall up to the await of addParticipant: the document is loaded and
\* the checks are made on it.
StartJoin(r, userId, password, isBlocked) ==
  /\ requests[r].pc = "idle"
  /\ asyncFrame /\ UNCHANGED <<callVars, log>>
  /\ requests' =
       IF ~exists
       THEN [requests EXCEPT ![r] = Request("done", "joinCall", userId, BlankCall, 404)]
       ELSE IF ~canUserJoin(call, userId).canJoin
               \/ (call.settings.requirePassword /\ call.settings.password # password)
               \/ isBlocked
       THEN [requests EXCEPT ![r] = Request("done", "joinCall", userId, call, 403)]
       ELSE [requests EXCEPT ![r] = Request("joinIssued", "joinCall", userId, call, 0)]
\* The store applies the write of addParticipant, or the write fails.
JoinWrite(r, ok) ==
  /\ requests[r].pc = "joinIssued"
  /\ asyncFrame /\ UNCHANGED exists
  /\ LET base == requests[r].doc
         u == requests[r].userId
         mem == addParticipant(base, u, "participant", NoPermissions, now)
     IN IF ok
        THEN /\ call' = applyDelta(call, base, mem)
             /\ requests' = [requests EXCEPT ![r].pc = "joinWritten", ![r].doc = mem]
             /\ log' = Append(log, WriteEntry(r, u,
                         IF mem.participants # base.participants THEN "joined" ELSE "none"))
        ELSE /\ requests' = finish(r, 500)
             /\ UNCHANGED <<call, log>>
\* joinCall after its awaits: user-joined-call is emitted and the handler
\* answers.
JoinDone(r) ==
  /\ requests[r].pc = "joinWritten"
  /\ asyncFrame /\ UNCHANGED callVars
  /\ log' = Append(log, EmitEntry(r, requests[r].userId, "user-joined-call"))
  /\ requests' = finish(r, 200)

\* leaveCall up to the await of removeParticipant.
StartLeave(r, userId) ==
  /\ requests[r].pc = "idle"
  /\ asyncFrame /\ UNCHANGED <<callVars, log>>
  /\ requests' =
       IF ~exists
       THEN [requests EXCEPT ![r] = Request("done", "leaveCall", userId, BlankCall, 404)]
       ELSE [requests EXCEPT ![r] = Request("leaveIssued", "leaveCall", userId, call, 0)]
\* The store applies the write of removeParticipant, or the write fails.
LeaveWrite(r, ok) ==
  /\ requests[r].pc = "leaveIssued"
  /\ asyncFrame /\ UNCHANGED exists
  /\ LET base == requests[r].doc
         u == requests[r].userId
         mem == removeParticipant(base, u, now)
     IN IF ok
        THEN /\ call' = applyDelta(call, base, mem)
             /\ requests' = [requests EXCEPT ![r].pc = "leaveWritten", ![r].doc = mem]
             /\ log' = Append(log, WriteEntry(r, u,
                         IF mem.participants # base.participants THEN "left" ELSE "none"))
        ELSE /\ requests' = finish(r, 500)
             /\ UNCHANGED <<call, log>>
\* leaveCall after removeParticipant: user-left-call is emitted, then the
\* handler saves the host transfer, or ends the call, or answers.
LeaveContinue(r) ==
  /\ requests[r].pc = "leaveWritten"
  /\ asyncFrame /\ UNCHANGED callVars
  /\ log' = Append(log, EmitEntry(r, requests[r].userId, "user-left-call"))
  /\ LET mem == requests[r].doc
         u == requests[r].userId
     IN requests' =
          IF transfersHost(mem, u) THEN [requests EXCEPT ![r].pc = "transferIssued"]
          ELSE IF activeParticipantsCount(mem) = 0
          THEN [requests EXCEPT ![r].pc = "endIssued"]
          ELSE finish(r, 200)
\* The store applies the write of the host transfer, or the write fails.
TransferWrite(r, ok) ==
  /\ requests[r].pc = "transferIssued"
  /\ asyncFrame /\ UNCHANGED exists
  /\ LET base == requests[r].doc
         u == requests[r].userId
         mem == transferHost(base, u)
     IN IF ok
        THEN /\ call' = applyDelta(call, base, mem)
             /\ requests' = [requests EXCEPT ![r].pc = "transferWritten", ![r].doc = mem]
             /\ log' = Append(log, WriteEntry(r, u, "host"))
        ELSE /\ requests' = finish(r, 500)
             /\ UNCHANGED <<call, log>>
\* leaveCall after the host transfer: host-changed is emitted and, other
\* participants being active, the handler answers.
TransferContinue(r) ==
  /\ requests[r].pc = "transferWritten"
  /\ asyncFrame /\ UNCHANGED callVars
  /\ log' = Append(log, EmitEntry(r, requests[r].userId, "host-changed"))
  /\ requests' =
       IF activeParticipantsCount(requests[r].doc) = 0
       THEN [requests EXCEPT ![r].pc = "endIssued"]
       ELSE finish(r, 200)
\* The store applies the write of endCall, or the write fails.
EndWrite(r, ok) ==
  /\ requests[r].pc = "endIssued"
  /\ asyncFrame /\ UNCHANGED exists
  /\ LET base == requests[r].doc
         u == requests[r].userId
         mem == endCall(base, now)
     IN IF ok
        THEN /\ call' = applyDelta(call, base, mem)
             /\ requests' = [requests EXCEPT ![r].pc = "endWritten", ![r].doc = mem]
             /\ log' = Append(log, WriteEntry(r, u, "ended"))
        ELSE /\ requests' = finish(r, 500)
             /\ UNCHANGED <<call, log>>
\* leaveCall after endCall: call-ended is emitted and the handler answers.
EndContinue(r) ==
  /\ requests[r].pc = "endWritten"
  /\ asyncFrame /\ UNCHANGED callVars
  /\ log' = Append(log, EmitEntry(r, requests[r].userId, "call-ended"))
  /\ requests' = finish(r, 200)

\* ---------------------------------------------------------- the system
\* The last response and its events have left the server.
Idle == response.op = "none"

\* The response reaches the client and the events their rooms.
Deliver ==
  /\ ~Idle
  /\ response' = Respond("none", NoUser, 0)
  /\ emitted' = <<>>
  /\ UNCHANGED <<callVars, now, sockVars, asyncVars>>

\* Time passes between two requests.
Tick ==
  /\ Idle
  /\ now < MaxTime
  /\ now' = now + 1
  /\ UNCHANGED <<exists, call, emitted, response, sockVars, asyncVars>>

CreateAny ==
  /\ Idle
  /\ UNCHANGED <<sockVars, asyncVars>>
  /\ \E u \in CreatorInputs, b \in CreateInputs, ids \in Lists(InviteTargets, 0, MaxInviteLen) :
        /\ CreateCall(u, b.maxParticipants, b.featureMax, b.canMakeCall,
                      b.scheduledFor, b.settings, ids)
\* createCall with no inviteUserIds.
CreatePlain ==
  /\ Idle
  /\ UNCHANGED <<sockVars, asyncVars>>
  /\ \E u \in CreatorInputs, b \in CreateInputs :
        CreateCall(u, b.maxParticipants, b.featureMax, b.canMakeCall,
                   b.scheduledFor, b.settings, <<>>)
\* createCall for two participants with the default settings.
CreateOpen ==
  /\ Idle
  /\ UNCHANGED <<sockVars, asyncVars>>
  /\ \E u \in CreatorInputs :
        CreateCall(u, MinParticipants, 3, TRUE, "none", OpenSettings, <<>>)
\* createCall with each scheduledFor.
CreateScheduled ==
  /\ Idle
  /\ UNCHANGED <<sockVars, asyncVars>>
  /\ \E u \in CreatorInputs, sf \in ScheduledForInputs :
        CreateCall(u, Undefined, 3, TRUE, sf, OpenSettings, <<>>)
\* createCall with a password and no lock.
CreateProtected ==
  /\ Idle
  /\ UNCHANGED <<sockVars, asyncVars>>
  /\ \E u \in CreatorInputs :
        CreateCall(u, Undefined, 3, TRUE, "none", ProtectedSettings, <<>>)
JoinAny ==
  /\ Idle
  /\ UNCHANGED <<sockVars, asyncVars>>
  /\ \E u \in Users, pw \in PasswordInputs, b \in BOOLEAN : JoinCall(u, pw, b)
LeaveAny ==
  /\ Idle
  /\ UNCHANGED <<sockVars, asyncVars>>
  /\ \E u \in Users : LeaveCall(u)
EndAny ==
  /\ Idle
  /\ UNCHANGED <<sockVars, asyncVars>>
  /\ \E u \in Users : EndCall(u)
AdminEndAny ==
  /\ Idle
  /\ UNCHANGED <<sockVars, asyncVars>>
  /\ AdminEndCall
KickAny ==
  /\ Idle
  /\ UNCHANGED <<sockVars, asyncVars>>
  /\ \E u \in Users : KickUserFromCall(u)
InviteAny ==
  /\ Idle
  /\ UNCHANGED <<sockVars, asyncVars>>
  /\ \E u \in Users, ids \in Lists(InviteTargets, 0, MaxInviteLen) : InviteToCall(u, ids)
RespondAny ==
  /\ Idle
  /\ UNCHANGED <<sockVars, asyncVars>>
  /\ \E u \in Users, r \in ResponseInputs : RespondToInvitation(u, r)
MediaAny ==
  /\ Idle
  /\ UNCHANGED <<sockVars, asyncVars>>
  /\ \E u \in Users, b \in MediaInputs : UpdateMediaState(u, b)
ChatAny ==
  /\ Idle
  /\ UNCHANGED <<sockVars, asyncVars>>
  /\ \E u \in Users, m \in MessageInputs : SendChatMessage(u, m)

ConnectAny == Idle /\ \E s \in Conns : Connection(s)
JoinRoomAny == Idle /\ \E s \in Conns, r \in RoomIds : JoinRoom(s, r)
LeaveRoomAny == Idle /\ \E s \in Conns, r \in RoomIds : LeaveRoom(s, r)
SendCallInvitationAny == Idle /\ \E s \in Conns, u \in Users : SendCallInvitation(s, u)
CallResponseAny == Idle /\ \E s \in Conns, u \in Users : CallResponse(s, u)
WebrtcSignalAny == Idle /\ \E s \in Conns, u \in Users : WebrtcSignal(s, u)
ToggleAudioAny == Idle /\ \E s \in Conns, r \in RoomIds : ToggleAudio(s, r)
ToggleVideoAny == Idle /\ \E s \in Conns, r \in RoomIds : ToggleVideo(s, r)
ToggleScreenShareAny == Idle /\ \E s \in Conns, r \in RoomIds : ToggleScreenShare(s, r)
SendMessageAny == Idle /\ \E s \in Conns, r \in RoomIds : SendMessage(s, r)
DisconnectAny == Idle /\ \E s \in Conns : Disconnect(s)
DisconnectAgainAny == Idle /\ \E s \in Conns : DisconnectAgain(s)

\* Every handler.
Next ==
  \/ Tick \/ Deliver \/ CreateAny \/ JoinAny \/ LeaveAny \/ EndAny \/ AdminEndAny
  \/ KickAny \/ InviteAny \/ RespondAny \/ MediaAny \/ ChatAny
  \/ ConnectAny \/ JoinRoomAny \/ LeaveRoomAny \/ SendCallInvitationAny
  \/ CallResponseAny \/ WebrtcSignalAny \/ ToggleAudioAny \/ ToggleVideoAny
  \/ ToggleScreenShareAny \/ SendMessageAny \/ DisconnectAny
Spec == Init /\ [][Next]_vars

\* Create, Join and Leave only.
NextJoinLeave == Tick \/ Deliver \/ CreatePlain \/ JoinAny \/ LeaveAny
SpecJoinLeave == Init /\ [][NextJoinLeave]_vars

\* The session's life: Create, Join, Leave, End and the admin's kick.
NextLife ==
  \/ Tick \/ Deliver \/ CreatePlain \/ JoinAny \/ LeaveAny \/ EndAny
  \/ AdminEndAny \/ KickAny
SpecLife == Init /\ [][NextLife]_vars

\* Join, Leave, End and the admin's kick with the media state and chat.
NextMedia ==
  \/ Deliver \/ CreatePlain \/ JoinAny \/ LeaveAny \/ EndAny \/ KickAny
  \/ MediaAny \/ ChatAny
SpecMedia == Init /\ [][NextMedia]_vars

\* The session's life with its invitations.
NextInvite ==
  \/ Deliver \/ CreateAny \/ JoinAny \/ LeaveAny \/ EndAny \/ InviteAny \/ RespondAny
SpecInvite == Init /\ [][NextInvite]_vars

\* Create, Join and End only: every participant that is not active was
\* deactivated by endCall.
NextEnd == Tick \/ Deliver \/ CreatePlain \/ JoinAny \/ EndAny
SpecEnd == Init /\ [][NextEnd]_vars

\* Create, Join and Leave with the chat.
NextChat == Deliver \/ CreatePlain \/ JoinAny \/ LeaveAny \/ ChatAny
SpecChat == Init /\ [][NextChat]_vars

\* Create, Join and Leave with the media state.
NextMediaOnly == Deliver \/ CreatePlain \/ JoinAny \/ LeaveAny \/ MediaAny
SpecMediaOnly == Init /\ [][NextMediaOnly]_vars

\* The connections with the session they subscribe to: Create and Join
\* over HTTP, and the socket commands that name a room.
NextSocket ==
  \/ Deliver \/ CreatePlain \/ JoinAny \/ ConnectAny \/ JoinRoomAny \/ LeaveRoomAny
  \/ ToggleAudioAny \/ ToggleVideoAny \/ ToggleScreenShareAny \/ SendMessageAny
  \/ DisconnectAny
SpecSocket == Init /\ [][NextSocket]_vars

\* The connections and the events passed on to a user's own room.
NextPresence ==
  \/ Deliver \/ ConnectAny \/ JoinRoomAny \/ LeaveRoomAny \/ SendCallInvitationAny
  \/ CallResponseAny \/ WebrtcSignalAny \/ DisconnectAny
SpecPresence == Init /\ [][NextPresence]_vars

\* The connections with a disconnect signal that arrives twice.
NextDisconnectTwice ==
  \/ Deliver \/ ConnectAny \/ JoinRoomAny \/ DisconnectAny \/ DisconnectAgainAny
SpecDisconnectTwice == Init /\ [][NextDisconnectTwice]_vars

\* Join and Leave on a session created with or without scheduledFor.
NextScheduled == Tick \/ Deliver \/ CreateScheduled \/ JoinAny \/ LeaveAny
SpecScheduled == Init /\ [][NextScheduled]_vars

\* Join and Leave on a session with a password.
NextPassword == Tick \/ Deliver \/ CreateProtected \/ JoinAny \/ LeaveAny
SpecPassword == Init /\ [][NextPassword]_vars

\* Create with every body, Join and Leave.
NextCreate == Tick \/ Deliver \/ CreateAny \/ JoinAny \/ LeaveAny
SpecCreate == Init /\ [][NextCreate]_vars

\* One connection connects and sends join-room for the session's room.
Observer == "s3"
ConnectObserver == Idle /\ Connection(Observer)
JoinRoomObserver == Idle /\ JoinRoom(Observer, ChannelRoom)

\* The HTTP handlers that emit to the session's room, with a connection
\* subscribed to it.
NextMirror ==
  \/ Deliver \/ CreateOpen \/ JoinAny \/ LeaveAny \/ MediaAny \/ ChatAny
  \/ ConnectObserver \/ JoinRoomObserver
SpecMirror == Init /\ [][NextMirror]_vars

\* Steps of the suspended handlers, taken between two atomic requests.
StartJoinAny ==
  /\ Idle
  /\ \E r \in ReqIds, u \in Users, pw \in PasswordInputs, b \in BOOLEAN :
        StartJoin(r, u, pw, b)
JoinWriteAny == Idle /\ \E r \in ReqIds, ok \in BOOLEAN : JoinWrite(r, ok)
JoinDoneAny == Idle /\ \E r \in ReqIds : JoinDone(r)
StartLeaveAny == Idle /\ \E r \in ReqIds, u \in Users : StartLeave(r, u)
LeaveWriteAny == Idle /\ \E r \in ReqIds, ok \in BOOLEAN : LeaveWrite(r, ok)
LeaveContinueAny == Idle /\ \E r \in ReqIds : LeaveContinue(r)
TransferWriteAny == Idle /\ \E r \in ReqIds, ok \in BOOLEAN : TransferWrite(r, ok)
TransferContinueAny == Idle /\ \E r \in ReqIds : TransferContinue(r)
EndWriteAny == Idle /\ \E r \in ReqIds, ok \in BOOLEAN : EndWrite(r, ok)
EndContinueAny == Idle /\ \E r \in ReqIds : EndContinue(r)

\* Session creation, a connection subscribing to the session's room, and
\* the joinCall and leaveCall handlers interleaved at their awaits.
NextAsync ==
  \/ Deliver \/ CreateOpen \/ ConnectObserver \/ JoinRoomObserver
  \/ StartJoinAny \/ JoinWriteAny \/ JoinDoneAny
  \/ StartLeaveAny \/ LeaveWriteAny \/ LeaveContinueAny
  \/ TransferWriteAny \/ TransferContinueAny
  \/ EndWriteAny \/ EndContinueAny
SpecAsync == Init /\ [][NextAsync]_vars

\* Joins that run to completion and leaveCall handlers interleaved at
\* their awaits.
NextAsyncLeave ==
  \/ Deliver \/ CreateOpen \/ JoinAny
  \/ StartLeaveAny \/ LeaveWriteAny \/ LeaveContinueAny
  \/ TransferWriteAny \/ TransferContinueAny
  \/ EndWriteAny \/ EndContinueAny
SpecAsyncLeave == Init /\ [][NextAsyncLeave]_vars

\* ------------------------------------------------------------ properties
\* The users with an active participant entry.
activeUsers(c) ==
  {c.participants[i].userId : i \in {j \in DOMAIN c.participants : c.participants[j].isActive}}
\* The participant entry of a user (the first one).
entryOf(c, u) == c.participants[FirstIndex(c.participants, LAMBDA p : p.userId = u)]
hasEntry(c, u) == \E i \in DOMAIN c.participants : c.participants[i].userId = u
Emitted(seq, name) == \E i \in DOMAIN seq : seq[i].event = name
Range(seq) == {seq[i] : i \in DOMAIN seq}
\* Some connection receives an event of this name.
Received(seq, name) == \E i \in DOMAIN seq : seq[i].event = name /\ seq[i].to # {}

\* C1: in every state reached by Create, Join, Leave, End, Invite and
\* RespondToInvitation, each run to completion, the number of active
\* participants is at most maxParticipants.
C1_ActiveWithinMax ==
  exists => activeParticipantsCount(call) <= call.maxParticipants
\* A Join has just filled the session.
C1_Witness ==
  /\ exists
  /\ response.op = "joinCall" /\ response.code = 200
  /\ activeParticipantsCount(call) = call.maxParticipants

\* C2: while the session is active its host has an active participant entry.
C2_HostIsActive ==
  (exists /\ call.status = "active") =>
     \E i \in DOMAIN call.participants :
        call.participants[i].userId = call.host /\ call.participants[i].isActive

C5_SecondLeaveNoOp ==
  [][\A u \in Users \ CreatorInputs :
       (LeaveCall(u) /\ exists /\ hasEntry(call, u) /\ u \notin activeUsers(call))
       => /\ call'.participants = call.participants
          /\ call'.host = call.host
          /\ call'.status = call.status
          /\ call'.endedAt = call.endedAt]_vars

\* C6: callController.endCall on an ended or cancelled session answers with
\* an error, leaves status, endedAt, duration and the participants as they
\* are and emits no call-ended.
C6_EndOnEndedFails ==
  [][\A u \in Users :
       (EndCall(u) /\ exists /\ call.status \in Terminal)
       => /\ response'.code >= 400
          /\ call'.status = call.status
          /\ call'.endedAt = call.endedAt
          /\ call'.duration = call.duration
          /\ call'.participants = call.participants
          /\ ~Emitted(emitted', "call-ended")]_vars

\* C7: once the session is ended or cancelled no step changes its
\* participant entries (media state included), its chat messages, its
\* status or its endedAt.
C7_TerminalFrozen ==
  [][(exists /\ call.status \in Terminal)
       => /\ call'.participants = call.participants
          /\ call'.chatMessages = call.chatMessages
          /\ call'.status = call.status
          /\ call'.endedAt = call.endedAt]_vars

\* C8 as claimed: every change of status is scheduled -> active,
\* active -> ended, scheduled -> cancelled or active -> cancelled.
C8_Original ==
  [][(exists /\ call'.status # call.status)
       => <<call.status, call'.status>> \in
            { <<"scheduled", "active">>, <<"active", "ended">>,
              <<"scheduled", "cancelled">>, <<"active", "cancelled">> }]_vars
\* C8, amended: every change of status is scheduled -> active,
\* active -> ended, scheduled -> ended, scheduled -> cancelled or
\* active -> cancelled; no step changes the status of an ended session.
C8_StatusTransitions ==
  [][(exists /\ call'.status # call.status)
       => <<call.status, call'.status>> \in
            { <<"scheduled", "active">>, <<"active", "ended">>,
              <<"scheduled", "ended">>,
              <<"scheduled", "cancelled">>, <<"active", "cancelled">> }]_vars
\* A session created as scheduled has been ended by End or by the last Leave.
C8_Witness ==
  /\ exists
  /\ call.scheduledFor # "none" /\ call.status = "ended"
  /\ response.op \in {"endCall", "leaveCall"} /\ response.code = 200

\* C9: for each user the session holds at most one pending invitation.
C9_OnePendingPerUser ==
  exists =>
    \A u \in Users :
      Cardinality({i \in DOMAIN call.invitations :
                     call.invitations[i].userId = u
                       /\ call.invitations[i].status = "pending"}) <= 1

\* C10: Invite by a permitted inviter, for a list without repeats, skips
\* exactly the targets with a pending invitation or an active participant
\* entry, appends one pending invitation for every other target and
\* reports the number of invitations it appended.
C10_InviteSkipsPendingOrActive ==
  [][\A u \in Users, ids \in Lists(InviteTargets, 1, MaxInviteLen) :
       (InviteToCall(u, ids) /\ exists /\ mayInvite(call, u)
          /\ Cardinality(Range(ids)) = Len(ids))
       => LET old == call.invitations
              new == SubSeq(call'.invitations, Len(old) + 1, Len(call'.invitations))
              skipped(t) ==
                \/ \E i \in DOMAIN old : old[i].userId = t /\ old[i].status = "pending"
                \/ t \in activeUsers(call)
          IN /\ SubSeq(call'.invitations, 1, Len(old)) = old
             /\ \A i \in DOMAIN new : new[i].status = "pending" /\ new[i].userId \in Range(ids)
             /\ \A t \in Range(ids) :
                   Cardinality({i \in DOMAIN new : new[i].userId = t})
                     = IF skipped(t) THEN 0 ELSE 1
             /\ response'.invitationsSent = Len(new)]_vars

\* C11: in a locked session that is active or scheduled and not full,
\* canUserJoin allows a user exactly when the user is an active participant
\* or holds an accepted invitation, and refuses every other user with
\* 'Room is locked'.
C11_LockedRoomAdmits ==
  (exists /\ call.settings.lockRoom /\ call.status \in {"active", "scheduled"}
     /\ activeParticipantsCount(call) < call.maxParticipants)
  => \A u \in Users :
       LET allowed ==
             \/ u \in activeUsers(call)
             \/ \E i \in DOMAIN call.invitations :
                   call.invitations[i].userId = u /\ call.invitations[i].status = "accepted"
       IN IF allowed
          THEN canUserJoin(call, u).canJoin
          ELSE canUserJoin(call, u) = [canJoin |-> FALSE, reason |-> "Room is locked"]

\* C12: for an active or scheduled session canUserJoin refuses with
\* 'Call is full' exactly when the number of active participants is at
\* least maxParticipants, and joinCall then answers 403 and changes nothing.
C12_FullExactlyAtMax ==
  [][\A u \in Users, pw \in PasswordInputs, b \in BOOLEAN :
       (JoinCall(u, pw, b) /\ exists /\ call.status \in {"active", "scheduled"})
       => LET full == activeParticipantsCount(call) >= call.maxParticipants IN
          /\ full <=> canUserJoin(call, u) = [canJoin |-> FALSE, reason |-> "Call is full"]
          /\ full => (response'.code = 403 /\ call' = call)]_vars
\* With maxParticipants = 2, the host and u2 active, a Join by u3 has been refused.
C12_Witness ==
  /\ exists
  /\ call.maxParticipants = 2 /\ activeUsers(call) = {"u1", "u2"}
  /\ call.host = "u1"
  /\ canUserJoin(call, "u3") = [canJoin |-> FALSE, reason |-> "Call is full"]
  /\ response.op = "joinCall" /\ response.code = 403

C14_RepeatedJoinSucceeds ==
  [][\A u \in Users, pw \in PasswordInputs :
       (JoinCall(u, pw, FALSE) /\ exists /\ u \in activeUsers(call)
          /\ (call.settings.requirePassword => pw = call.settings.password))
       => /\ response'.code = 200
          /\ call'.participants = call.participants]_vars

\* C15: callController.endCall by a user who is neither the host nor a
\* participant with role moderator answers 403, leaves the session as it is
\* and emits no call-ended; by the host or a moderator on an active session
\* it succeeds and the session is ended.
C15_EndNeedsHostOrModerator ==
  [][\A u \in Users :
       (EndCall(u) /\ exists)
       => IF call.host = u
             \/ (hasEntry(call, u) /\ entryOf(call, u).role = "moderator")
          THEN call.status = "active"
                 => (response'.code = 200 /\ call'.status = "ended"
                       /\ Emitted(emitted', "call-ended"))
          ELSE /\ response'.code = 403
               /\ call' = call
               /\ ~Emitted(emitted', "call-ended")]_vars
\* A participant who is not the host has asked to end an active session
\* and has been refused.
C15_Witness ==
  /\ exists
  /\ response.op = "endCall" /\ response.code = 403
  /\ call.status = "active"
  /\ Len(call.participants) > 1

\* C16: in every state where the session is ended no participant is active,
\* and (no one having left or been removed, so that endCall deactivated
\* every participant) each participant's leftAt is the session's endedAt.
C16_EndedHasNoActive ==
  (exists /\ call.status = "ended")
  => \A i \in DOMAIN call.participants :
        /\ ~call.participants[i].isActive
        /\ call.participants[i].leftAt = call.endedAt

\* C17: inviteToCall by a user who is not an active participant with
\* canInvite fails, appends no invitation and emits no call-invitation;
\* when the request names at least one user the answer is 403.
C17_InviteNeedsCanInvite ==
  [][\A u \in Users, ids \in Lists(InviteTargets, 0, MaxInviteLen) :
       (InviteToCall(u, ids) /\ exists
          /\ ~(\E i \in DOMAIN call.participants :
                  /\ call.participants[i].userId = u
                  /\ call.participants[i].isActive
                  /\ call.participants[i].permissions.canInvite))
       => /\ response'.code >= 400
          /\ Len(ids) > 0 => response'.code = 403
          /\ call'.invitations = call.invitations
          /\ ~Emitted(emitted', "call-invitation")]_vars
\* An active participant without canInvite has been refused while the
\* user named in the request could have been invited.
C17_Witness ==
  /\ exists
  /\ response.op = "inviteToCall" /\ response.code = 403
  /\ \E i \in DOMAIN call.participants :
        call.participants[i].isActive /\ ~call.participants[i].permissions.canInvite
  /\ call.invitations = <<>>

\* C18: sendChatMessage fails and appends no message when allowChat is
\* false or the sender is not an active participant, with 403 when the text
\* is not empty; otherwise a text of 1 to 1000 characters is answered 200
\* and exactly one message, the sender's, is appended.
C18_ChatNeedsActiveAndAllowed ==
  [][\A u \in Users, m \in MessageInputs :
       (SendChatMessage(u, m) /\ exists)
       => IF ~call.settings.allowChat \/ u \notin activeUsers(call)
          THEN /\ response'.code >= 400
               /\ length(trim(m)) > 0 => response'.code = 403
               /\ call'.chatMessages = call.chatMessages
          ELSE (length(trim(m)) >= 1 /\ length(trim(m)) <= MaxMessageLength)
               => /\ response'.code = 200
                  /\ Len(call'.chatMessages) = Len(call.chatMessages) + 1
                  /\ SubSeq(call'.chatMessages, 1, Len(call.chatMessages))
                       = call.chatMessages
                  /\ call'.chatMessages[Len(call'.chatMessages)].senderId = u]_vars
\* A text has been refused in a session whose chat is disabled although
\* participants are active.
C18_Witness ==
  /\ exists
  /\ response.op = "sendChatMessage" /\ response.code = 403
  /\ ~call.settings.allowChat
  /\ activeUsers(call) # {}

\* C19: from an active participant of a session that allows chat, a text
\* of 1001 characters is answered with a validation error (400) and leaves
\* chatMessages and totalMessages unchanged, and a text of 1000 characters
\* is answered 200 and raises totalMessages by exactly 1.
C19_MessageLengthLimit ==
  [][\A u \in Users, m \in MessageInputs :
       (SendChatMessage(u, m) /\ exists /\ mayChat(call, u))
       => /\ length(trim(m)) = MaxMessageLength + 1
               => /\ response'.code = 400
                  /\ call'.chatMessages = call.chatMessages
                  /\ call'.analytics.totalMessages = call.analytics.totalMessages
          /\ length(trim(m)) = MaxMessageLength
               => /\ response'.code = 200
                  /\ call'.analytics.totalMessages
                       = call.analytics.totalMessages + 1]_vars

\* C20: respondToInvitation with accepted or declined, by a user with no
\* pending invitation, answers 404 and changes no invitation; otherwise it
\* answers 200, gives one pending invitation of that user the response as
\* its status, sets its respondedAt and changes no other invitation.
C20_RespondSetsOnePending ==
  [][\A u \in Users, r \in {"accepted", "declined"} :
       (RespondToInvitation(u, r) /\ exists)
       => LET pending == {i \in DOMAIN call.invitations :
                            /\ call.invitations[i].userId = u
                            /\ call.invitations[i].status = "pending"}
          IN IF pending = {}
             THEN /\ response'.code = 404
                  /\ call'.invitations = call.invitations
             ELSE /\ response'.code = 200
                  /\ \E i \in pending :
                        /\ call'.invitations[i].respondedAt # Undefined
                        /\ call'.invitations =
                             [call.invitations EXCEPT
                                ![i].status = r,
                                ![i].respondedAt = call'.invitations[i].respondedAt]]_vars
\* An invited user has accepted.
C20_Witness ==
  /\ exists
  /\ response.op = "respondToInvitation" /\ response.code = 200
  /\ \E i \in DOMAIN call.invitations :
        /\ call.invitations[i].status = "accepted"
        /\ call.invitations[i].respondedAt # Undefined

\* C21: updateMediaState by a user who is not an active participant leaves
\* the session as it is; by an active participant it changes, on that
\* user's entry only, those of audioEnabled, videoEnabled and screenSharing
\* that the body gives as booleans, and nothing else of the session.
C21_MediaMergesBooleans ==
  [][\A u \in Users, b \in MediaInputs :
       (UpdateMediaState(u, b) /\ exists)
       => IF u \notin activeUsers(call)
          THEN call' = call
          ELSE LET i == CHOOSE j \in DOMAIN call.participants :
                          call.participants[j].userId = u
                   old == call.participants[i].mediaState
                   new == [f \in MediaFields |->
                             IF b[f] = "true" THEN TRUE
                             ELSE IF b[f] = "false" THEN FALSE
                             ELSE old[f]]
               IN call' = [call EXCEPT !.participants[i].mediaState = new]]_vars
\* An active participant has switched the audio off with a body whose
\* videoEnabled is not a boolean.
C21_Witness ==
  /\ exists
  /\ response.op = "updateMediaState" /\ response.code = 200
  /\ \E i \in DOMAIN call.participants :
        /\ call.participants[i].isActive
        /\ call.participants[i].mediaState
             = [audioEnabled |-> FALSE, videoEnabled |-> TRUE, screenSharing |-> FALSE]
  /\ \E i \in DOMAIN call.participants :
        /\ call.participants[i].isActive
        /\ call.participants[i].mediaState = DefaultMediaState

C23_DisconnectLeaves ==
  [][\A s \in Conns :
       (Disconnect(s) /\ sockets[s] = "live")
       => LET u == socketUser(s)
              joinedRooms == {r \in RoomIds : u \in roomMembers(activeRooms, r)}
          IN /\ \A r \in joinedRooms :
                   /\ u \notin roomMembers(activeRooms', r)
                   /\ \E i \in DOMAIN emitted' :
                         /\ emitted'[i].event = "user-left"
                         /\ emitted'[i].room = r
                         /\ emitted'[i].userId = u
                   /\ (r = ChannelRoom /\ exists /\ u \in activeUsers(call))
                        => u \notin activeUsers(call')
             /\ connectedUsers'[u] = NoConn
             /\ emitted'[Len(emitted')].event = "user-offline"]_vars

\* C24: when canUserJoin refuses the user, join-room for the session's room
\* leaves the subscribers as they are and sends no user-joined.
C24_JoinRoomChecksCanJoin ==
  [][\A s \in Conns :
       (JoinRoom(s, ChannelRoom) /\ exists
          /\ ~canUserJoin(call, socketUser(s)).canJoin)
       => /\ activeRooms' = activeRooms
          /\ ~Emitted(emitted', "user-joined")]_vars

\* C30: send-message delivers new-message to the session's room only when
\* the sender is an active participant and the session allows chat, and a
\* media toggle is delivered only when the sender is an active participant.
C30_RelayValidated ==
  [][\A s \in Conns :
       LET u == socketUser(s)
           active == u \in activeUsers(call)
       IN /\ (SendMessage(s, ChannelRoom) /\ exists
                /\ ~(active /\ call.settings.allowChat))
               => ~Received(emitted', "new-message")
          /\ ((ToggleAudio(s, ChannelRoom) \/ ToggleVideo(s, ChannelRoom)
                 \/ ToggleScreenShare(s, ChannelRoom)) /\ exists /\ ~active)
               => /\ ~Received(emitted', "user-audio-toggled")
                  /\ ~Received(emitted', "user-video-toggled")
                  /\ ~Received(emitted', "user-screen-share-toggled")]_vars

Wrote(i, r, u, effect) ==
  /\ log[i].kind = "write" /\ log[i].req = r
  /\ log[i].userId = u /\ log[i].name = effect
\* The log holds the event of this name that request r emitted about u.
EmittedBy(i, r, u, name) ==
  /\ log[i].kind = "emit" /\ log[i].req = r
  /\ log[i].userId = u /\ log[i].name = name
\* Connection t received the event at position i of the log.
ReceivedBy(t, i) == log[i].kind = "emit" /\ t \in log[i].to

\* C25: when the write that made a user a participant was stored before
\* the write that took the same user out, a connection that receives
\* user-left-call of the second has received user-joined-call of the first
\* before it.
C25_EventsInCommitOrder ==
  \A rj, rl \in ReqIds, u \in Users :
    \A i, j, k \in DOMAIN log :
       (/\ Wrote(i, rj, u, "joined") /\ Wrote(j, rl, u, "left") /\ i < j
        /\ EmittedBy(k, rl, u, "user-left-call"))
       => \A t \in Conns :
             ReceivedBy(t, k)
             => \E m \in 1..(k - 1) :
                   EmittedBy(m, rj, u, "user-joined-call") /\ ReceivedBy(t, m)

\* C26: with joinCall handlers of different users suspended at their
\* awaits, the stored session never has more active participants than
\* maxParticipants.
C26_ConcurrentJoinsWithinMax ==
  exists => Cardinality(activeUsers(call)) <= call.maxParticipants

\* C27: no connection has received an event from a handler that answered
\* with an error.
C27_FailureEmitsNothing ==
  \A r \in ReqIds :
    (requests[r].pc = "done" /\ requests[r].code >= 400)
    => \A i \in DOMAIN log, t \in Conns : ~(log[i].req = r /\ ReceivedBy(t, i))

C32_HttpMirrorsSocketEvents ==
  [][\A u \in Users :
       (ioTo(ChannelRoom) # {} /\ response'.code = 200)
       => /\ (\E pw \in PasswordInputs, b \in BOOLEAN : JoinCall(u, pw, b))
               => Emitted(emitted', "user-joined")
          /\ LeaveCall(u) => Emitted(emitted', "user-left")
          /\ (\E m \in MessageInputs : SendChatMessage(u, m))
               => Emitted(emitted', "new-message")
          /\ (\E b \in MediaInputs : UpdateMediaState(u, b))
               => \/ Emitted(emitted', "user-audio-toggled")
                  \/ Emitted(emitted', "user-video-toggled")
                  \/ Emitted(emitted', "user-screen-share-toggled")]_vars

\* C33: every room of activeRooms has at least one user, each of them with
\* a live connection that is in the room, and no room has two entries.
C33_NoEmptyRoom ==
  /\ \A i \in DOMAIN activeRooms :
        /\ activeRooms[i].participants # {}
        /\ \A u \in activeRooms[i].participants :
              \E s \in Conns : /\ sockets[s] = "live" /\ socketUser(s) = u
                               /\ activeRooms[i].roomId \in socketRooms[s]
  /\ \A i, j \in DOMAIN activeRooms :
        activeRooms[i].roomId = activeRooms[j].roomId => i = j
\* leave-room has emptied the session's room, which is gone from the map,
\* while the other room is still in it.
C33_Witness ==
  /\ response.op = "leave-room"
  /\ roomIndex(activeRooms, ChannelRoom) = 0
  /\ Len(activeRooms) = 1
  /\ Received(emitted, "user-left")

\* C34: one leaveCall never emits both host-changed and call-ended; it
\* emits host-changed only when another participant is active, and the new
\* host is one of them; it emits call-ended, and ends the session, only
\* when no other participant is active.
C34_FailoverOrAutoEnd ==
  [][\A u \in Users :
       LeaveCall(u)
       => LET others == activeUsers(call) \ {u} IN
          /\ ~(Emitted(emitted', "host-changed") /\ Emitted(emitted', "call-ended"))
          /\ Emitted(emitted', "host-changed")
               => /\ others # {}
                  /\ call'.host \in others
                  /\ call'.status = call.status
          /\ Emitted(emitted', "call-ended") => others = {}
          /\ call'.status # call.status
               => /\ Emitted(emitted', "call-ended")
                  /\ call'.status = "ended"]_vars
\* The host has left while another participant was active, who is the host
\* now, and the session goes on.
C34_Witness ==
  /\ response.op = "leaveCall" /\ response.code = 200
  /\ Emitted(emitted, "host-changed")
  /\ call.status = "active"
  /\ call.host # "u1" /\ call.host \in activeUsers(call)

\* C35: joinCall with a password other than settings.password, on a
\* session that requires one, answers with an error, leaves the session as
\* it was and emits no user-joined-call.
C35_WrongPasswordRefused ==
  [][\A u \in Users, pw \in PasswordInputs, b \in BOOLEAN :
       (/\ JoinCall(u, pw, b)
        /\ exists /\ call.settings.requirePassword
        /\ pw # call.settings.password)
       => /\ response'.code >= 400
          /\ call' = call
          /\ ~Emitted(emitted', "user-joined-call")]_vars
\* joinCall was refused on an active session that requires a password and
\* that every user may otherwise join.
C35_Witness ==
  /\ response.op = "joinCall" /\ response.code = 403
  /\ exists /\ call.settings.requirePassword /\ call.status = "active"
  /\ \A u \in Users : canUserJoin(call, u).canJoin

\* C36: a session that createCall has created is scheduled when
\* scheduledFor is a date after the request, and active when scheduledFor
\* is absent or a date that is not after the request.
C36_ScheduledOnlyForFuture ==
  [][\A u \in CreatorInputs, sf \in ScheduledForInputs :
       (/\ CreateCall(u, Undefined, 3, TRUE, sf, OpenSettings, <<>>)
        /\ response'.code = 201)
       => call'.status = IF sf = "future" THEN "scheduled" ELSE "active"]_vars

\* C37: a session whose status is active has at least one active
\* participant.
C37_ActiveHasParticipant ==
  (exists /\ call.status = "active") => activeUsers(call) # {}

\* C38: when the leaveCall handlers of two different users have both
\* answered 200 and no participant is active, the session is ended.
C38_ConcurrentLeavesEnd ==
  \A r1, r2 \in ReqIds :
    (/\ exists /\ r1 # r2
     /\ requests[r1].op = "leaveCall" /\ requests[r2].op = "leaveCall"
     /\ requests[r1].pc = "done" /\ requests[r2].pc = "done"
     /\ requests[r1].code = 200 /\ requests[r2].code = 200
     /\ requests[r1].userId # requests[r2].userId
     /\ activeUsers(call) = {})
    => call.status = "ended"

C40_PresenceWhileConnected ==
  /\ [](\A s \in Conns :
          sockets[s] = "live"
          => /\ connectedUsers[socketUser(s)] # NoConn
             /\ \A r \in RoomIds :
                   r \in socketRooms[s] => socketUser(s) \in roomMembers(activeRooms, r))
  /\ [][\A s, t \in Conns :
          (/\ Disconnect(s)
           /\ s # t /\ socketUser(t) = socketUser(s) /\ sockets[t] = "live")
          => /\ connectedUsers'[socketUser(s)] # NoConn
             /\ \A r \in RoomIds :
                   roomMembers(activeRooms', r) = roomMembers(activeRooms, r)
             /\ ~Received(emitted', "user-offline")
             /\ ~Received(emitted', "user-left")]_vars

====
